---- MODULE Spec2Model ----
(***************************************************************************)
(* Model of the inference-server streaming completion proxy:               *)
(*   src/src/models.py       request schema and its validation bounds      *)
(*   src/src/vllm_client.py  VLLMClient / MockVLLMClient                   *)
(*   src/src/main.py         chat_completions and the two generation paths *)
(*                                                                         *)
(* Spec is the service with its clock; SpecValidation and SpecMessages     *)
(* submit one request from the boundary values of the schema; SpecService  *)
(* adds the health probe and close(); SpecCancel adds the caller closing   *)
(* its connection during a stream.                                         *)
(*                                                                         *)
(* One completion request is in flight at a time.  Floating point          *)
(* parameters are counted in tenths (temperature 0.7 is 7).  An Optional   *)
(* value is a set with at most one element ({} is None).  Time is the      *)
(* event loop's monotonic clock in seconds.                                *)
(***************************************************************************)
EXTENDS Integers, Sequences, FiniteSets, TLC

\* ------------------------------------------------------------------ bounds
MaxRequests == 2          \* completion requests submitted in one run
MaxLines == 2             \* lines the backend sends on one stream body
MaxTime == 32             \* the clock stops advancing here
MaxProbes == 2            \* GET /health requests in one run
MaxCloses == 2            \* calls of VLLMClient.close in one run

\* ------------------------------------------------------- program constants
KeepAliveInterval == 15   \* generate_stream(keep_alive_interval=15.0)
MockPromptTokens == 10    \* MockVLLMClient.generate "prompt_tokens": 10
MockContentCut == 50      \* MockVLLMClient.generate user_content[:50]
MaxTokensCeiling == 131072
TemperatureMax == 20      \* le=2.0, in tenths
TopPMax == 10             \* le=1.0, in tenths
DefaultMaxTokens == 4096
DefaultTemperature == 7    \* default=0.7, in tenths
DefaultTopP == 10          \* default=1.0, in tenths

None == "None"

\* dict.get(k, default)
Get(d, k, default) == IF k \in DOMAIN d THEN d[k] ELSE default

Min(a, b) == IF a < b THEN a ELSE b

\* ------------------------------------------------------------ schema layer
\* Field(ge=lo, le=hi) on an Optional field: None passes, a value must be in range.
InRange(opt, lo, hi) == \A v \in opt : lo <= v /\ v <= hi

AtLeast(opt, lo) == \A v \in opt : lo <= v

\* Message.role: Literal["system", "user", "assistant", "tool"]
Roles == {"system", "user", "assistant", "tool"}

\* Message: role is required and one of Roles; content, name, tool_calls
\* and tool_call_id are Optional with default None and have no validator.
ValidMessage(m) == "role" \in DOMAIN m /\ m.role \in Roles

ValidMessagesNonEmpty(messages) ==
    /\ Len(messages) > 0
    /\ \A i \in 1..Len(messages) : ValidMessage(messages[i])

\* messages: List[Message], without a length constraint.
ValidMessages(messages) == \A i \in 1..Len(messages) : ValidMessage(messages[i])

ValidateBroken(raw) ==
    /\ ValidMessages(raw.messages)
    /\ InRange(raw.max_tokens, 0, MaxTokensCeiling)
    /\ InRange(raw.temperature, 0, TemperatureMax)
    /\ InRange(raw.top_p, 0, TopPMax)
    /\ AtLeast(raw.top_k, 1)

\* ChatCompletionRequest: pydantic validation of the bounded fields.
Validate(raw) ==
    /\ ValidMessages(raw.messages)
    /\ InRange(raw.max_tokens, 1, MaxTokensCeiling)
    /\ InRange(raw.temperature, 0, TemperatureMax)
    /\ InRange(raw.top_p, 0, TopPMax)
    /\ AtLeast(raw.top_k, 1)

\* ------------------------------------------------------------------ inputs
UserMessage == [role |-> "user", content |-> <<"hi", "yo">>]

MessageLists == { <<>>, <<UserMessage>> }

\* Every combination of boundary values of the bounded parameters.
BoundaryRequests ==
    [ model : {"m"},
      messages : { <<UserMessage>> },
      max_tokens : { {}, {0}, {1}, {MaxTokensCeiling}, {MaxTokensCeiling + 1} },
      temperature : { {}, {-1}, {0}, {TemperatureMax}, {TemperatureMax + 1} },
      top_p : { {-1}, {0}, {TopPMax}, {TopPMax + 1} },
      top_k : { {}, {0} },
      stream : BOOLEAN ]

\* The requests of the main specification: the defaults of the schema with
\* either message list, buffered and streaming, and one buffered request
\* with temperature 3.0.
RawRequests ==
    { r \in [ model : {"m"},
              messages : MessageLists,
              max_tokens : { {DefaultMaxTokens} },
              temperature : { {DefaultTemperature}, {30} },
              top_p : { {DefaultTopP} },
              top_k : { {} },
              stream : BOOLEAN ] :
        r.temperature = {30} => (r.messages = <<UserMessage>> /\ ~r.stream) }

ToolCall == [id |-> "call_1", type |-> "function"]

\* Messages as JSON objects: every role of the schema and one outside it,
\* with and without content, with and without tool_calls (a null member is
\* an absent one), and a message without role.
MessageInputs ==
    { [role |-> r] : r \in Roles \cup {"invalid"} }
    \cup { [role |-> r, content |-> <<"hi", "yo">>] : r \in Roles \cup {"invalid"} }
    \cup { [role |-> r, tool_calls |-> <<ToolCall>>] : r \in Roles \cup {"invalid"} }
    \cup { [role |-> r, content |-> <<"hi", "yo">>, tool_calls |-> <<ToolCall>>] :
             r \in Roles \cup {"invalid"} }
    \cup { [content |-> <<"hi", "yo">>] }

\* Requests with the defaults of the schema and one message.
MessageRequests ==
    { [r EXCEPT !.messages = <<m>>] :
        r \in {q \in RawRequests : q.temperature = {DefaultTemperature}},
        m \in MessageInputs }

\* The requests of the service specification: a buffered and a streaming
\* request with the defaults, and a buffered one with temperature 3.0.
ServiceRequests ==
    { r \in RawRequests :
        /\ r.messages = <<UserMessage>>
        /\ r.stream => r.temperature = {DefaultTemperature} }

NoRequest ==
    [model |-> "", messages |-> <<>>, max_tokens |-> {}, temperature |-> {},
     top_p |-> {}, top_k |-> {}, stream |-> FALSE]

\* ------------------------------------------------------ backend behaviours
ConnectError == [type |-> "ConnectError", text |-> "All connection attempts failed"]

HTTPStatusError == [type |-> "HTTPStatusError", text |-> "Server error '503 Service Unavailable'"]

ReadError == [type |-> "ReadError", text |-> "peer closed connection"]

KeyError == [type |-> "KeyError", text |-> "'choices'"]

\* The model name the backend puts in its own chunks.
BackendModel == "vllm"

\* Bodies of a 2xx answer to the buffered completion call.
FullUsage == [prompt_tokens |-> 10, completion_tokens |-> 5, total_tokens |-> 15]

PartialUsage == [prompt_tokens |-> 10, completion_tokens |-> 5]

BufferedBodies ==
    { [choices |-> << [message |-> [content |-> "text"], finish_reason |-> "stop"] >>,
       usage |-> FullUsage],
      [choices |-> << [message |-> [content |-> "text"], finish_reason |-> "length"] >>,
       usage |-> PartialUsage],
      [choices |-> << [message |-> [content |-> "text"]] >>],
      [detail |-> "no choices"] }

\* What the backend does with the POST of VLLMClient.generate: the
\* connection cannot be established, or it answers with a status and a body.
BackendReplies ==
    { [kind |-> "refused"] }
    \cup { [kind |-> "status", status |-> st, data |-> [detail |-> "error"]] :
             st \in {503} }
    \cup { [kind |-> "status", status |-> 200, data |-> d] : d \in BufferedBodies }

\* httpx.Response.raise_for_status: the exception for a status outside 2xx.
StatusError(status) == HTTPStatusError

\* ------------------------------------------------------------------- state
VARIABLES
    mock,             \* app.state.vllm_client is a MockVLLMClient
    request_count,    \* app.state.request_count
    error_count,      \* app.state.error_count
    client,           \* VLLMClient._client: "none", "open" or "closed"
    pc,               \* position of the request in flight
    request,          \* the inbound request
    request_id,       \* identifier of the request in flight (0: none)
    uuid_draws,       \* identifiers generated so far
    uuids,            \* the values uuid.uuid4() returned, in order
    response,         \* status line and body sent to the caller
    out,              \* items written to the caller-facing event stream
    events,           \* events yielded by generate_stream
    arrival,          \* clock at which the line behind each event was read
    last_keep_alive,  \* generate_stream's local last_keep_alive
    stream_start,     \* clock when generate_stream was first consumed
    opened_at,        \* clock when the backend's streaming body was opened
    closed_at,        \* clock when generate_stream finished
    lines_read,       \* lines read from the backend body of this stream
    lines,            \* history: each line read and the clock at its read
    clock,            \* asyncio.get_event_loop().time()
    backend_calls,    \* completion calls issued to the backend
    log,              \* outcome of every request handled so far
    handles,          \* httpx.AsyncClient objects constructed so far
    aclose_calls,     \* calls of httpx.AsyncClient.aclose made so far
    close_calls,      \* calls of VLLMClient.close made so far
    probes,           \* GET /health requests handled so far
    probed,           \* the last probe: what the backend did, what is_healthy did
    health,           \* the last response of GET /health
    listings,         \* GET /api/v1/models requests handled so far
    models,           \* the last response of GET /api/v1/models
    reply,            \* what the backend did with the buffered completion call
    caller_open,      \* the caller's connection of the stream in flight is open
    backend_open,     \* the backend's streaming response is open
    scheduling,       \* how tasks are run: "cooperative" (one event loop) or "parallel"
    tasks,            \* the concurrent operations: position, counter read, handle held
    transports,       \* every httpx.AsyncClient constructed: "open" or "closed"
    client_ref        \* VLLMClient._client as a reference into transports (0: None)

vars == <<mock, request_count, error_count, client, pc, request, request_id,
          uuid_draws, uuids, response, out, events, arrival, last_keep_alive,
          stream_start, opened_at, closed_at, lines_read, lines, clock,
          backend_calls,
          log, handles, aclose_calls, close_calls, probes, probed, health,
          listings, models,
          reply, caller_open, backend_open, scheduling, tasks, transports,
          client_ref>>

streamVars == <<out, events, arrival, last_keep_alive, stream_start,
                opened_at, closed_at, lines_read>>

probeVars == <<probes, probed, health>>

listVars == <<listings, models>>

closeVars == <<aclose_calls, close_calls>>

taskVars == <<scheduling, tasks, transports, client_ref>>

NoResponse == [status |-> 0, body |-> [kind |-> "none"]]

NoProbe == [outcome |-> [kind |-> "none"], raised |-> FALSE, value |-> FALSE]

NoReply == [kind |-> "none"]

MaxTasks == 2

Tasks == 1..MaxTasks

Schedulings == {"cooperative", "parallel"}

NoTask == [pc |-> "new", kind |-> "none", reg |-> 0, handle |-> 0]

\* The state after lifespan's startup.
Constructed ==
    /\ mock \in BOOLEAN
    /\ request_count = 0
    /\ error_count = 0
    /\ client = "none"
    /\ pc = "idle"
    /\ request = NoRequest
    /\ request_id = 0
    /\ uuid_draws = 0
    /\ uuids = <<>>
    /\ response = NoResponse
    /\ out = <<>>
    /\ events = <<>>
    /\ arrival = <<>>
    /\ last_keep_alive = 0
    /\ stream_start = 0
    /\ opened_at = 0
    /\ closed_at = 0
    /\ lines_read = 0
    /\ lines = <<>>
    /\ clock = 0
    /\ backend_calls = 0
    /\ log = <<>>
    /\ handles = 0
    /\ aclose_calls = 0
    /\ close_calls = 0
    /\ probes = 0
    /\ probed = NoProbe
    /\ health = NoResponse
    /\ listings = 0
    /\ models = NoResponse
    /\ reply = NoReply
    /\ caller_open = TRUE
    /\ backend_open = FALSE
    /\ tasks = [t \in Tasks |-> NoTask]
    /\ transports = <<>>
    /\ client_ref = 0

\* One process with one event loop: uvicorn runs every handler of a worker
\* on it.
Init == Constructed /\ scheduling = "cooperative"

\* The same program with its handlers run either way.
InitTasks == Constructed /\ scheduling \in Schedulings


\* ------------------------------------------------------------- VLLMClient
IssuedWithRetry(calls) == calls + 2

\* "await client.post(...)" in generate, "client.stream(...)" in
\* generate_stream: the call is issued once, outside any loop or retry.
Issued(calls) == calls + 1

GetClientNoReopen(c) == IF c = "none" THEN "open" ELSE c

\* VLLMClient._get_client: create the handle when absent or closed.
GetClient(c) == IF c = "none" \/ c = "closed" THEN "open" ELSE c

\* VLLMClient._get_client: the handles constructed once it has returned.
Created(c, n) == IF c = "none" \/ c = "closed" THEN n + 1 ELSE n

NeedsCloseAlways(c) == c # "none"

\* VLLMClient.close: "if self._client and not self._client.is_closed".
NeedsClose(c) == c = "open"

\* What can happen to the GET /health that is_healthy sends: the handle
\* cannot be obtained, the connection is refused, the 5 s timeout expires,
\* or the backend answers with a status.
ProbeStatuses == {200, 204, 404, 500}

ProbeOutcomes ==
    { [kind |-> "client_error"], [kind |-> "refused"], [kind |-> "timeout"] }
    \cup { [kind |-> "status", status |-> st] : st \in ProbeStatuses }

StatusOkSuccessClass(status) == status \in 200..299

\* response.status_code == 200
StatusOk(status) == status = 200

is_healthy_uncaught(o) ==
    [outcome |-> o,
     raised |-> o.kind \in {"client_error", "timeout"},
     value |-> IF o.kind = "status" THEN StatusOk(o.status) ELSE FALSE]

\* VLLMClient.is_healthy: the comparison inside try, False from
\* "except Exception"; no exception leaves the method.
is_healthy(o) ==
    [outcome |-> o,
     raised |-> FALSE,
     value |-> IF o.kind = "status" THEN StatusOk(o.status) ELSE FALSE]

\* MockVLLMClient.is_healthy: return True
MockIsHealthy == [outcome |-> [kind |-> "mock"], raised |-> FALSE, value |-> TRUE]

EmptyDict == <<>>

\* VLLMClient.generate raises while extracting data["choices"][0].
GenerateRaises(data) ==
    \/ "choices" \notin DOMAIN data
    \/ Len(data.choices) = 0

\* VLLMClient.generate: the dict returned for a 2xx body.
GenerateResult(data) ==
    LET choice == data.choices[1]
        usage == Get(data, "usage", EmptyDict)
    IN [content |-> choice.message.content,
        finish_reason |-> Get(choice, "finish_reason", "stop"),
        prompt_tokens |-> Get(usage, "prompt_tokens", 0),
        completion_tokens |-> Get(usage, "completion_tokens", 0),
        total_tokens |-> Get(usage, "total_tokens", 0)]

GenerateUnchecked(r) ==
    IF r.kind = "refused" THEN [raises |-> TRUE, exc |-> ConnectError]
    ELSE IF GenerateRaises(r.data) THEN [raises |-> TRUE, exc |-> KeyError]
    ELSE [raises |-> FALSE, result |-> GenerateResult(r.data)]

\* VLLMClient.generate from client.post on: the exception that leaves it,
\* or the dict it returns.
Generate(r) ==
    IF r.kind = "refused" THEN [raises |-> TRUE, exc |-> ConnectError]
    ELSE IF r.status \notin 200..299 THEN [raises |-> TRUE, exc |-> StatusError(r.status)]
    ELSE IF GenerateRaises(r.data) THEN [raises |-> TRUE, exc |-> KeyError]
    ELSE [raises |-> FALSE, result |-> GenerateResult(r.data)]

\* ---------------------------------------------------------- MockVLLMClient
\* Text is a sequence of words; every word of the model's inputs is two
\* characters long, so n words joined by blanks are 3n-1 characters.
CutWords(words, chars) ==
    SubSeq(words, 1, Min(Len(words), (chars + 1) \div 3))

RECURSIVE LastUser(_)
\* next(m for m in reversed(messages) if role == "user"), default "Hello!";
\* get_content(last_user) or "" for a message without content.
LastUser(messages) ==
    IF Len(messages) = 0 THEN <<"Hello!">>
    ELSE IF messages[Len(messages)].role = "user"
         THEN Get(messages[Len(messages)], "content", <<>>)
         ELSE LastUser(SubSeq(messages, 1, Len(messages) - 1))

\* content = f"Mock response to: {user_content[:50]}", then content.split()
MockWords(messages) ==
    <<"Mock", "response", "to:">> \o CutWords(LastUser(messages), MockContentCut)

\* MockVLLMClient.generate
MockGenerate(messages) ==
    [content |-> MockWords(messages),
     finish_reason |-> "stop",
     prompt_tokens |-> MockPromptTokens,
     completion_tokens |-> Len(MockWords(messages)),
     total_tokens |-> MockPromptTokens + Len(MockWords(messages))]

\* MockVLLMClient.generate_stream: one event per word, "stop" on the last.
MockEvents(messages) ==
    [i \in 1..Len(MockWords(messages)) |->
        [content |-> MockWords(messages)[i],
         finish_reason |-> IF i = Len(MockWords(messages)) THEN "stop" ELSE None,
         keep_alive |-> FALSE]]

\* ------------------------------------------------------------ orchestrator
\* http_exception_handler: the envelope carries exc.detail as its message.
http_exception_handler(status, detail) ==
    [status |-> status,
     body |-> [kind |-> "error", message |-> detail, type |-> "api_error",
               code |-> status]]

\* The response general_exception_handler builds.
InternalErrorResponse ==
    [status |-> 500,
     body |-> [kind |-> "error", message |-> "Internal server error",
               type |-> "internal_error", code |-> 500]]

\* FastAPI's answer to a request that fails schema validation.
ValidationErrorResponse ==
    [status |-> 422, body |-> [kind |-> "validation"]]

\* generate_chat_completion: the envelope built from the client's result.
CompletionResponse(id, model, result) ==
    [status |-> 200,
     body |-> [kind |-> "completion", id |-> id, model |-> model,
               choices |-> << [index |-> 0,
                               message |-> [role |-> "assistant",
                                            content |-> result.content],
                               finish_reason |-> Get(result, "finish_reason", "stop")] >>,
               usage |-> [prompt_tokens |-> Get(result, "prompt_tokens", 0),
                          completion_tokens |-> Get(result, "completion_tokens", 0),
                          total_tokens |-> Get(result, "total_tokens", 0)]]]

\* chat_completions, streaming branch: StreamingResponse with its headers.
StreamingResponse(id) ==
    [status |-> 200,
     body |-> [kind |-> "stream", media_type |-> "text/event-stream",
               x_request_id |-> id]]

LogEntry(req, outcome, resp) ==
    [request |-> req, outcome |-> outcome, status |-> resp.status,
     message |-> Get(resp.body, "message", "")]

ForwardBackendModel(id, model, ev) ==
    << [type |-> "data", id |-> id, model |-> BackendModel,
        content |-> Get(ev, "content", ""),
        finish_reason |-> Get(ev, "finish_reason", None)] >>
    \o (IF Get(ev, "keep_alive", FALSE) THEN << [type |-> "comment"] >> ELSE <<>>)

\* stream_chat_completion: the items written for one event of the client.
Forward(id, model, ev) ==
    << [type |-> "data", id |-> id, model |-> model,
        content |-> Get(ev, "content", ""),
        finish_reason |-> Get(ev, "finish_reason", None)] >>
    \o (IF Get(ev, "keep_alive", FALSE) THEN << [type |-> "comment"] >> ELSE <<>>)

RECURSIVE ForwardAll(_, _, _)
ForwardAll(id, model, evs) ==
    IF Len(evs) = 0 THEN <<>>
    ELSE Forward(id, model, Head(evs)) \o ForwardAll(id, model, Tail(evs))

DoneItem == [type |-> "done"]


\* ------------------------------------------------- lines of a stream body
DataLine(payload) == [prefix |-> "data: ", payload |-> payload]

JsonPayload(value) == [kind |-> "json", value |-> value]

\* The n-th content fragment the backend generates.
Token(n) == ToString(n)

\* What the backend can send as its n-th line.
LinesAt(n) ==
    { [prefix |-> "", payload |-> [kind |-> "empty"]],
      [prefix |-> ": ", payload |-> [kind |-> "comment"]],
      DataLine([kind |-> "sentinel"]),
      DataLine([kind |-> "garbage"]),
      DataLine(JsonPayload([error |-> "overloaded"])),
      DataLine(JsonPayload([model |-> BackendModel,
                            choices |-> << [delta |-> [content |-> Token(n)]] >>])),
      DataLine(JsonPayload([model |-> BackendModel,
                            choices |-> << [delta |-> [content |-> Token(n)],
                                            finish_reason |-> "stop"] >>])),
      DataLine(JsonPayload([model |-> BackendModel,
                            choices |-> << [delta |-> [role |-> "assistant"],
                                            finish_reason |-> None] >>])) }

\* JSON that is no object, such as a number.
ScalarPayload(value) == [kind |-> "scalar", value |-> value]

\* LinesAt and two more payloads without a usable first choice.
AllLinesAt(n) ==
    LinesAt(n) \cup { DataLine(JsonPayload([choices |-> <<>>])),
                      DataLine(ScalarPayload(7)) }

\* not line or not line.startswith("data: ")
Skipped(line) == line.payload.kind = "empty" \/ line.prefix # "data: "

\* data_str == "[DONE]"
IsSentinel(line) == line.payload.kind = "sentinel"

\* json.loads raises JSONDecodeError
DecodeFails(line) == line.payload.kind = "garbage"

\* data["choices"][0] raises TypeError (the payload is no object), KeyError
\* or IndexError, none of which is caught
ChoiceRaises(line) ==
    \/ line.payload.kind = "scalar"
    \/ "choices" \notin DOMAIN line.payload.value
    \/ Len(line.payload.value.choices) = 0

\* The content event yielded for a decoded data line.
ContentEvent(line) ==
    LET choice == line.payload.value.choices[1]
        delta == Get(choice, "delta", EmptyDict)
    IN [content |-> Get(delta, "content", ""),
        finish_reason |-> Get(choice, "finish_reason", None),
        keep_alive |-> FALSE]

KeepAliveEventTerminal == [content |-> "", finish_reason |-> "stop", keep_alive |-> TRUE]

\* yield {"content": "", "keep_alive": True}
KeepAliveEvent == [content |-> "", keep_alive |-> TRUE]

KeepAliveDueLate(now, last) == now - last > 2 * KeepAliveInterval

\* if now - last_keep_alive > keep_alive_interval
KeepAliveDue(now, last) == now - last > KeepAliveInterval

KeepAlivesRepeated(due) ==
    IF due THEN <<KeepAliveEvent, KeepAliveEvent>> ELSE <<>>

\* The timer check at the head of an iteration: what it yields.
KeepAlives(due) == IF due THEN <<KeepAliveEvent>> ELSE <<>>

TimerAfterAnyRead(due, now, last) == now

\* last_keep_alive after the timer check: "last_keep_alive = now" is inside
\* the if.
TimerAfter(due, now, last) == IF due THEN now ELSE last

ContinueAsBreak(ka) == [yield |-> ka, then |-> "break"]

\* "continue": the line yields nothing and the loop reads on.
Continue(ka) == [yield |-> ka, then |-> "continue"]

BreakAsContinue(ka) == [yield |-> ka, then |-> "continue"]

\* "break": the line yields nothing and the loop is left.
Break(ka) == [yield |-> ka, then |-> "break"]

IterationKeepAliveOnly(line, due) ==
    LET ka == KeepAlives(due)
    IN IF due THEN Continue(ka)
       ELSE IF Skipped(line) THEN Continue(ka)
       ELSE IF IsSentinel(line) THEN Break(ka)
       ELSE IF DecodeFails(line) THEN Continue(ka)
       ELSE IF ChoiceRaises(line) THEN [yield |-> ka, then |-> "raise"]
       ELSE [yield |-> ka \o <<ContentEvent(line)>>, then |-> "continue"]

\* What one iteration of the read loop does with the line: the events it
\* yields and how the iteration ends.
Iteration(line, due) ==
    LET ka == KeepAlives(due)
    IN IF Skipped(line) THEN Continue(ka)
       ELSE IF IsSentinel(line) THEN Break(ka)
       ELSE IF DecodeFails(line) THEN Continue(ka)
       ELSE IF ChoiceRaises(line) THEN [yield |-> ka, then |-> "raise"]
       ELSE [yield |-> ka \o <<ContentEvent(line)>>, then |-> "continue"]


\* ----------------------------------------------------------------- actions
general_exception_handler_silent(started) ==
    /\ error_count' = error_count
    /\ response' = IF started THEN response ELSE InternalErrorResponse

\* general_exception_handler: count the error; its 500 response reaches the
\* caller only when no response has been started yet.
general_exception_handler(started) ==
    /\ error_count' = error_count + 1
    /\ response' = IF started THEN response ELSE InternalErrorResponse

\* chat_completions, "except Exception as e": count the error and raise
\* HTTPException(500, detail=str(e)), rendered by http_exception_handler.
HandlerCatches(e) ==
    /\ error_count' = error_count + 1
    /\ response' = http_exception_handler(500, e.text)

StreamRaisesLeavesOpen ==
    /\ general_exception_handler(TRUE)
    /\ pc' = "idle"
    /\ closed_at' = clock
    /\ backend_open' = backend_open
    /\ log' = Append(log, LogEntry(request, "failed", response))

\* An exception leaves the generator of a StreamingResponse whose status
\* line is already sent: the catch-all handler runs, the stream is cut.
StreamRaises ==
    /\ general_exception_handler(TRUE)
    /\ pc' = "idle"
    /\ closed_at' = clock
    /\ backend_open' = FALSE
    /\ log' = Append(log, LogEntry(request, "failed", response))

\* uuid.uuid4().hex is 32 hexadecimal digits: a value is modelled by the
\* pair of its first 24 digits (the head) and its last 8 (the tail).
MaxHeads == 2
MaxTails == 2
Uuids == (1..MaxHeads) \X (1..MaxTails)

\* uuid.uuid4().hex[:24]: the tail is dropped.
Truncate(uuid) == uuid[1]

\* f"chatcmpl-{...}": a constant prefix, so the identifier is modelled by
\* the digits that follow it.
RequestId(uuid) == Truncate(uuid)

\* The n-th value of a run whose values all differ in their heads.
DistinctUuid(n) == <<n, 1>>

\* The values uuid.uuid4() can return next: a universally unique identifier
\* is one that no earlier call returned.
UnusedUuids == {u \in Uuids : \A i \in 1..Len(uuids) : uuids[i] # u}

ReturnStreamingResponseEager(id) ==
    /\ response' = StreamingResponse(id)
    /\ client' = GetClient(client)
    /\ handles' = Created(client, handles)
    /\ backend_calls' = backend_calls + 1
    /\ pc' = "stream_wait"
    /\ UNCHANGED log

\* chat_completions, "if request.stream": stream_chat_completion(...) only
\* creates the generator object, and the StreamingResponse around it is
\* returned; no line of the generator's body has run.
ReturnStreamingResponse(id) ==
    /\ response' = StreamingResponse(id)
    /\ pc' = "gen_start"
    /\ UNCHANGED <<client, handles, backend_calls, log>>

RejectRequestCounted(raw) ==
    /\ response' = ValidationErrorResponse
    /\ log' = Append(log, LogEntry(raw, "rejected", ValidationErrorResponse))
    /\ request_count' = request_count + 1
    /\ UNCHANGED <<request_id, uuid_draws, uuids, client, handles,
                   backend_calls, pc>>

\* The schema rejects the body: FastAPI answers 422 and chat_completions is
\* not called.
RejectRequest(raw) ==
    /\ response' = ValidationErrorResponse
    /\ log' = Append(log, LogEntry(raw, "rejected", ValidationErrorResponse))
    /\ UNCHANGED <<request_count, request_id, uuid_draws, uuids, client, handles,
                   backend_calls, pc>>

\* POST /api/v1/chat/completions: schema validation, then chat_completions
\* up to its first suspension point.  The output and the generator of the
\* request before it are gone.
Receive(raw, limit, uuid) ==
    /\ pc = "idle"
    /\ Len(log) < limit
    /\ request' = raw
    /\ out' = <<>>
    /\ events' = <<>>
    /\ arrival' = <<>>
    /\ lines_read' = 0
    /\ lines' = <<>>
    /\ last_keep_alive' = 0
    /\ stream_start' = 0
    /\ opened_at' = 0
    /\ closed_at' = 0
    /\ reply' = NoReply
    /\ caller_open' = TRUE
    /\ UNCHANGED <<mock, clock, error_count, backend_open>>
    /\ UNCHANGED <<probeVars, closeVars>>
    /\ UNCHANGED <<taskVars, listVars>>
    /\ IF ~Validate(raw)
       THEN RejectRequest(raw)
       ELSE /\ request_count' = request_count + 1
            /\ uuid_draws' = uuid_draws + 1
            /\ uuids' = Append(uuids, uuid)
            /\ request_id' = RequestId(uuid)
            /\ IF raw.stream
               THEN ReturnStreamingResponse(RequestId(uuid))
               ELSE IF mock
               THEN /\ response' = CompletionResponse(RequestId(uuid), raw.model,
                                                      MockGenerate(raw.messages))
                    /\ pc' = "idle"
                    /\ log' = Append(log, LogEntry(raw, "ok", response'))
                    /\ UNCHANGED <<client, handles, backend_calls>>
               ELSE /\ client' = GetClient(client)
                    /\ handles' = Created(client, handles)
                    /\ backend_calls' = Issued(backend_calls)
                    /\ response' = NoResponse
                    /\ pc' = "buf_wait"
                    /\ UNCHANGED log

\* A request whose uuid4 draw shares its leading digits with no other draw
\* of the run: the n-th such draw is modelled by the uuid with head n.
Handle(raw, limit) == Receive(raw, limit, DistinctUuid(uuid_draws + 1))

Submit == \E raw \in RawRequests : Handle(raw, MaxRequests)

\* VLLMClient.generate resumes after client.post, and generate_chat_completion
\* and chat_completions run to their end.
Reply(r) ==
    /\ pc = "buf_wait"
    /\ pc' = "idle"
    /\ UNCHANGED <<mock, request_count, client, request, request_id, uuid_draws, uuids, lines,
                   clock, backend_calls, handles, caller_open, backend_open>>
    /\ UNCHANGED <<streamVars, probeVars, closeVars>>
    /\ UNCHANGED <<taskVars, listVars>>
    /\ reply' = r
    /\ IF Generate(r).raises
       THEN /\ HandlerCatches(Generate(r).exc)
            /\ log' = Append(log, LogEntry(request, "failed", response'))
       ELSE /\ response' = CompletionResponse(request_id, request.model,
                                              Generate(r).result)
            /\ log' = Append(log, LogEntry(request, "ok", response'))
            /\ UNCHANGED error_count

BufferedReply == \E r \in BackendReplies : Reply(r)

\* The body of the StreamingResponse is consumed with the mock client:
\* every word is forwarded, then the end-of-stream marker.
MockStream ==
    /\ pc = "gen_start"
    /\ mock
    /\ events' = MockEvents(request.messages)
    /\ arrival' = [i \in 1..Len(MockEvents(request.messages)) |-> clock]
    /\ out' = ForwardAll(request_id, request.model, MockEvents(request.messages))
              \o <<DoneItem>>
    /\ pc' = "idle"
    /\ closed_at' = clock
    /\ log' = Append(log, LogEntry(request, "ok", response))
    /\ UNCHANGED <<mock, request_count, error_count, client, request, request_id,
                   uuid_draws, uuids, lines, response, last_keep_alive, stream_start,
                   opened_at, lines_read, clock, backend_calls, handles, reply,
                   caller_open, backend_open>>
    /\ UNCHANGED <<probeVars, closeVars>>
    /\ UNCHANGED <<taskVars, listVars>>

\* The body of the StreamingResponse is first consumed: generate_stream runs
\* up to client.stream(...).
StreamStart ==
    /\ pc = "gen_start"
    /\ ~mock
    /\ client' = GetClient(client)
    /\ handles' = Created(client, handles)
    /\ last_keep_alive' = clock
    /\ stream_start' = clock
    /\ backend_calls' = Issued(backend_calls)
    /\ pc' = "stream_wait"
    /\ UNCHANGED <<mock, request_count, error_count, request, request_id,
                   uuid_draws, uuids, lines, response, out, events, arrival, opened_at,
                   closed_at, lines_read, clock, log, reply, caller_open,
                   backend_open>>
    /\ UNCHANGED <<probeVars, closeVars>>
    /\ UNCHANGED <<taskVars, listVars>>

\* The backend answers the streaming call: the connection fails, the status
\* is not 2xx (raise_for_status), or the body is opened.
StreamResponse ==
    /\ pc = "stream_wait"
    /\ UNCHANGED <<mock, request_count, client, request, request_id, uuid_draws, uuids, lines, out,
                   events, arrival, last_keep_alive, stream_start, lines_read,
                   clock, backend_calls, handles, reply, caller_open>>
    /\ UNCHANGED <<probeVars, closeVars>>
    /\ UNCHANGED <<taskVars, listVars>>
    /\ \/ /\ StreamRaises
          /\ UNCHANGED opened_at
       \/ /\ pc' = "reading"
          /\ opened_at' = clock
          /\ backend_open' = TRUE
          /\ UNCHANGED <<error_count, response, log, closed_at>>

\* One iteration of "async for line in response.aiter_lines()", together
\* with stream_chat_completion forwarding what the iteration yields.
Iterate(line) ==
    /\ pc = "reading"
    /\ caller_open
    /\ lines_read < MaxLines
    /\ lines_read' = lines_read + 1
    /\ LET due == KeepAliveDue(clock, last_keep_alive)
           it == Iteration(line, due)
       IN /\ last_keep_alive' = TimerAfter(due, clock, last_keep_alive)
          /\ events' = events \o it.yield
          /\ arrival' = arrival \o [i \in 1..Len(it.yield) |-> clock]
          /\ CASE it.then = "continue" ->
                    /\ out' = out \o ForwardAll(request_id, request.model, it.yield)
                    /\ UNCHANGED <<pc, error_count, response, log, closed_at,
                                   backend_open>>
               [] it.then = "break" ->
                    /\ out' = out \o ForwardAll(request_id, request.model, it.yield)
                              \o <<DoneItem>>
                    /\ pc' = "idle"
                    /\ closed_at' = clock
                    /\ backend_open' = FALSE
                    /\ log' = Append(log, LogEntry(request, "ok", response))
                    /\ UNCHANGED <<error_count, response>>
               [] it.then = "raise" ->
                    /\ out' = out \o ForwardAll(request_id, request.model, it.yield)
                    /\ StreamRaises
    /\ UNCHANGED <<mock, request_count, client, request, request_id, uuid_draws, uuids,
                   stream_start, opened_at, clock, backend_calls, handles, reply,
                   caller_open>>
    /\ UNCHANGED <<probeVars, closeVars>>
    /\ UNCHANGED <<taskVars, listVars>>

ReadLine == \E line \in LinesAt(lines_read + 1) : Iterate(line) /\ UNCHANGED lines

\* The backend closes the body without a sentinel: the loop ends.
BodyEnd ==
    /\ pc = "reading"
    /\ caller_open
    /\ out' = Append(out, DoneItem)
    /\ pc' = "idle"
    /\ closed_at' = clock
    /\ backend_open' = FALSE
    /\ log' = Append(log, LogEntry(request, "ok", response))
    /\ UNCHANGED <<mock, request_count, error_count, client, request, request_id,
                   uuid_draws, uuids, lines, response, events, arrival, last_keep_alive,
                   stream_start, opened_at, lines_read, clock, backend_calls,
                   handles, reply, caller_open>>
    /\ UNCHANGED <<probeVars, closeVars>>
    /\ UNCHANGED <<taskVars, listVars>>

\* Reading the body fails (connection reset, read timeout).
ReadFail ==
    /\ pc = "reading"
    /\ StreamRaises
    /\ UNCHANGED <<mock, request_count, client, request, request_id, uuid_draws, uuids, lines,
                   out, events, arrival, last_keep_alive, stream_start,
                   opened_at, lines_read, clock, backend_calls, handles, reply,
                   caller_open>>
    /\ UNCHANGED <<probeVars, closeVars>>
    /\ UNCHANGED <<taskVars, listVars>>

\* The caller closes its connection while the stream is in flight.  Nothing
\* in stream_chat_completion or generate_stream looks at the connection:
\* either the server cancels the task at once (CancelledError at the await
\* of generate_stream, whose "async with" closes the backend response), or
\* the closed connection is met only by the next write.
Disconnect ==
    /\ pc \in {"stream_wait", "reading"}
    /\ caller_open
    /\ caller_open' = FALSE
    /\ \/ /\ pc' = "idle"
          /\ backend_open' = FALSE
          /\ closed_at' = clock
          /\ log' = Append(log, LogEntry(request, "cancelled", response))
       \/ UNCHANGED <<pc, backend_open, closed_at, log>>
    /\ UNCHANGED <<mock, request_count, error_count, client, request, request_id,
                   uuid_draws, uuids, lines, response, out, events, arrival, last_keep_alive,
                   stream_start, opened_at, lines_read, clock, backend_calls,
                   handles, reply>>
    /\ UNCHANGED <<probeVars, closeVars>>
    /\ UNCHANGED <<taskVars, listVars>>

\* A write to the closed connection fails: the generators are left
\* suspended at their yield and are not consumed again.  Whether the
\* failure reaches general_exception_handler depends on the server.
WriteFails ==
    /\ pc' = "abandoned"
    /\ closed_at' = clock
    /\ log' = Append(log, LogEntry(request, "disconnected", response))
    /\ error_count' \in {error_count, error_count + 1}
    /\ UNCHANGED response

\* One iteration of the read loop after the caller has gone: a line that
\* yields nothing is consumed and the loop goes on; the first event that
\* stream_chat_completion forwards meets the closed connection.
IterateClosed(line) ==
    /\ pc = "reading"
    /\ ~caller_open
    /\ lines_read < MaxLines
    /\ lines_read' = lines_read + 1
    /\ LET due == KeepAliveDue(clock, last_keep_alive)
           it == Iteration(line, due)
       IN /\ last_keep_alive' = TimerAfter(due, clock, last_keep_alive)
          /\ IF Len(it.yield) > 0
             THEN /\ events' = Append(events, Head(it.yield))
                  /\ arrival' = Append(arrival, clock)
                  /\ WriteFails
                  /\ UNCHANGED backend_open
             ELSE /\ UNCHANGED <<events, arrival>>
                  /\ CASE it.then = "continue" ->
                            UNCHANGED <<pc, error_count, response, log, closed_at,
                                        backend_open>>
                       [] it.then = "break" ->
                            WriteFails /\ backend_open' = FALSE
                       [] it.then = "raise" -> StreamRaises
    /\ UNCHANGED <<mock, request_count, client, request, request_id, uuid_draws, uuids,
                   out, stream_start, opened_at, clock, backend_calls, handles,
                   reply, caller_open>>
    /\ UNCHANGED <<probeVars, closeVars>>
    /\ UNCHANGED <<taskVars, listVars>>

ReadClosed ==
    \E line \in LinesAt(lines_read + 1) : IterateClosed(line) /\ UNCHANGED lines

\* The backend closes the body after the caller has gone: generate_stream
\* returns, and the end-of-stream marker meets the closed connection.
BodyEndClosed ==
    /\ pc = "reading"
    /\ ~caller_open
    /\ WriteFails
    /\ backend_open' = FALSE
    /\ UNCHANGED <<mock, request_count, client, request, request_id, uuid_draws, uuids, lines,
                   out, events, arrival, last_keep_alive, stream_start, opened_at,
                   lines_read, clock, backend_calls, handles, reply, caller_open>>
    /\ UNCHANGED <<probeVars, closeVars>>
    /\ UNCHANGED <<taskVars, listVars>>

\* The runtime finalises the abandoned generators: GeneratorExit at the
\* yield of generate_stream leaves its "async with", which closes the
\* backend response.
Finalize ==
    /\ pc = "abandoned"
    /\ pc' = "idle"
    /\ backend_open' = FALSE
    /\ UNCHANGED <<mock, request_count, error_count, client, request, request_id,
                   uuid_draws, uuids, lines, response, clock, backend_calls, log, handles,
                   reply, caller_open>>
    /\ UNCHANGED <<streamVars, probeVars, closeVars>>
    /\ UNCHANGED <<taskVars, listVars>>

ErrorRateInverted(errors, requests) ==
    IF errors > 0 THEN (20000 * requests + errors) \div (2 * errors) ELSE 0

\* round(error_count / request_count, 4) in ten-thousandths, 0.0 without
\* requests.
ErrorRate(errors, requests) ==
    IF requests > 0 THEN (20000 * errors + requests) \div (2 * requests) ELSE 0

HealthResponseSuccesses(requests, errors, connected) ==
    [status |-> 200,
     body |-> [kind |-> "health", status |-> "healthy",
               total_requests |-> requests - errors,
               error_rate |-> ErrorRate(errors, requests),
               vllm_connected |-> connected]]

\* health_check: the body it returns.
HealthResponse(requests, errors, connected) ==
    [status |-> 200,
     body |-> [kind |-> "health", status |-> "healthy",
               total_requests |-> requests,
               error_rate |-> ErrorRate(errors, requests),
               vllm_connected |-> connected]]

\* GET /health: health_check reads the counters and awaits is_healthy, which
\* obtains the handle and sends its GET.  An exception leaving is_healthy
\* would reach general_exception_handler.
Probe(o) ==
    /\ probes < MaxProbes
    /\ probes' = probes + 1
    /\ probed' = IF mock THEN MockIsHealthy ELSE is_healthy(o)
    /\ health' = IF probed'.raised THEN InternalErrorResponse
                 ELSE HealthResponse(request_count, error_count, probed'.value)
    /\ error_count' = IF probed'.raised THEN error_count + 1 ELSE error_count
    /\ IF mock \/ o.kind = "client_error"
       THEN UNCHANGED <<client, handles>>
       ELSE /\ client' = GetClient(client)
            /\ handles' = Created(client, handles)
    /\ UNCHANGED <<mock, request_count, pc, request, request_id, uuid_draws, uuids, lines,
                   response, clock, backend_calls, log, reply, caller_open,
                   backend_open>>
    /\ UNCHANGED <<streamVars, closeVars>>
    /\ UNCHANGED <<taskVars, listVars>>

HealthCheck == \E o \in ProbeOutcomes : Probe(o)

\* The metadata list_models builds from the settings.
ModelsResponse ==
    [status |-> 200,
     body |-> [kind |-> "models", object |-> "list",
               data |-> << [id |-> "settings.model_id", object |-> "model"] >>]]

\* GET /api/v1/models: list_models reads the settings and the start time.
ListModels ==
    /\ listings < MaxProbes
    /\ listings' = listings + 1
    /\ models' = ModelsResponse
    /\ UNCHANGED <<mock, request_count, error_count, client, pc, request,
                   request_id, uuid_draws, uuids, lines, response, clock,
                   backend_calls, log, handles, reply, caller_open, backend_open>>
    /\ UNCHANGED <<streamVars, probeVars, closeVars, taskVars>>

\* VLLMClient.close, as lifespan calls it at shutdown and as a caller that
\* owns the client may call it between two operations.
Close ==
    /\ pc = "idle"
    /\ close_calls < MaxCloses
    /\ close_calls' = close_calls + 1
    /\ IF NeedsClose(client)
       THEN /\ client' = "closed"
            /\ aclose_calls' = aclose_calls + 1
       ELSE UNCHANGED <<client, aclose_calls>>
    /\ UNCHANGED <<mock, request_count, error_count, pc, request, request_id,
                   uuid_draws, uuids, lines, response, clock, backend_calls, log, handles,
                   reply, caller_open, backend_open>>
    /\ UNCHANGED <<streamVars, probeVars>>
    /\ UNCHANGED <<taskVars, listVars>>

Delays == {KeepAliveInterval, KeepAliveInterval + 1}

\* Time passes while generate_stream, the only reader of the clock, waits
\* for the backend.
Advance(d) ==
    /\ pc \in {"stream_wait", "reading"}
    /\ clock + d <= MaxTime
    /\ clock' = clock + d
    /\ UNCHANGED <<mock, request_count, error_count, client, pc, request,
                   request_id, uuid_draws, uuids, lines, response, log, backend_calls,
                   handles, reply, caller_open, backend_open>>
    /\ UNCHANGED <<streamVars, probeVars, closeVars>>
    /\ UNCHANGED <<taskVars, listVars>>

Tick == \E d \in Delays : Advance(d)

\* ------------------------------------------------- concurrent operations
\* Operations on one shared VLLMClient, run as tasks.  A task is followed
\* statement by statement; under cooperative scheduling a task that runs
\* keeps the event loop until it reaches an await of backend I/O (or, for
\* a stream, the hand-over of its response), under parallel scheduling any
\* task may take the next step.
serialVars == <<mock, client, pc, request, request_id, uuid_draws, uuids,
                response, lines, clock, backend_calls, log, handles, reply,
                caller_open, backend_open>>

TaskKinds == {"probe", "buffered", "stream"}

\* Positions at which a task does not hold the event loop.
SuspendedAt == {"new", "generator", "io", "done"}

Running(t) == tasks[t].pc \notin SuspendedAt

ScheduledAlways(t) == TRUE

\* Task t may take its next step.
Scheduled(t) ==
    scheduling = "parallel" \/ \A u \in Tasks \ {t} : ~Running(u)

At(t, where) == ~mock /\ tasks[t].pc = where /\ Scheduled(t)

\* self._client as _get_client and close see it.
RefState(ref, ts) == IF ref = 0 THEN "none" ELSE ts[ref]

IncrementedNot(n) == n

\* "+= 1" on the value read.
Incremented(n) == n + 1

ClosedAll(ts, ref) == [h \in 1..Len(ts) |-> "closed"]

\* await self._client.aclose(): the handle referred to is closed.
Closed(ts, ref) == [ts EXCEPT ![ref] = "closed"]

\* A request reaches its handler: GET /health goes to is_healthy, a
\* completion request to "app.state.request_count += 1".
Arrive(t, kind) ==
    /\ At(t, "new")
    /\ t > 1 => tasks[t - 1].pc # "new"
    /\ tasks' = [tasks EXCEPT ![t] = [NoTask EXCEPT
                    !.kind = kind,
                    !.pc = IF kind = "probe" THEN "check" ELSE "load_requests"]]
    /\ UNCHANGED <<request_count, error_count, transports, client_ref, scheduling>>
    /\ UNCHANGED <<serialVars, streamVars, probeVars, closeVars, listVars>>

Arrival == \E t \in Tasks : \E kind \in TaskKinds : Arrive(t, kind)

\* request_count += 1, the read.
LoadRequests ==
    \E t \in Tasks :
        /\ At(t, "load_requests")
        /\ tasks' = [tasks EXCEPT ![t].reg = request_count,
                                  ![t].pc = "store_requests"]
        /\ UNCHANGED <<request_count, error_count, transports, client_ref, scheduling>>
        /\ UNCHANGED <<serialVars, streamVars, probeVars, closeVars, listVars>>

\* request_count += 1, the write.  A buffered request goes on to generate,
\* a streaming one returns its StreamingResponse.
StoreRequests ==
    \E t \in Tasks :
        /\ At(t, "store_requests")
        /\ request_count' = Incremented(tasks[t].reg)
        /\ tasks' = [tasks EXCEPT ![t].reg = 0,
                                  ![t].pc = IF tasks[t].kind = "stream"
                                            THEN "generator" ELSE "check"]
        /\ UNCHANGED <<error_count, transports, client_ref, scheduling>>
        /\ UNCHANGED <<serialVars, streamVars, probeVars, closeVars, listVars>>

\* The body of a StreamingResponse is first consumed.
Consume ==
    \E t \in Tasks :
        /\ At(t, "generator")
        /\ tasks' = [tasks EXCEPT ![t].pc = "check"]
        /\ UNCHANGED <<request_count, error_count, transports, client_ref, scheduling>>
        /\ UNCHANGED <<serialVars, streamVars, probeVars, closeVars, listVars>>

\* _get_client: "if self._client is None or self._client.is_closed".
CheckClient ==
    \E t \in Tasks :
        /\ At(t, "check")
        /\ tasks' = [tasks EXCEPT ![t].pc =
                        IF Created(RefState(client_ref, transports), 0) = 1
                        THEN "create" ELSE "return"]
        /\ UNCHANGED <<request_count, error_count, transports, client_ref, scheduling>>
        /\ UNCHANGED <<serialVars, streamVars, probeVars, closeVars, listVars>>

\* _get_client: "self._client = httpx.AsyncClient(...)".
CreateClient ==
    \E t \in Tasks :
        /\ At(t, "create")
        /\ transports' = Append(transports, "open")
        /\ client_ref' = Len(transports) + 1
        /\ tasks' = [tasks EXCEPT ![t].pc = "return"]
        /\ UNCHANGED <<request_count, error_count, scheduling>>
        /\ UNCHANGED <<serialVars, streamVars, probeVars, closeVars, listVars>>

\* _get_client: "return self._client", and the caller's request on it.
ReturnClient ==
    \E t \in Tasks :
        /\ At(t, "return")
        /\ tasks' = [tasks EXCEPT ![t].handle = client_ref, ![t].pc = "io"]
        /\ UNCHANGED <<request_count, error_count, transports, client_ref, scheduling>>
        /\ UNCHANGED <<serialVars, streamVars, probeVars, closeVars, listVars>>

\* The backend I/O of the task ends, well or with an exception; on a
\* closed handle it can only fail.  is_healthy swallows the exception, a
\* completion request counts it.
Answer ==
    \E t \in Tasks : \E ok \in BOOLEAN :
        /\ At(t, "io")
        /\ ok => transports[tasks[t].handle] = "open"
        /\ tasks' = [tasks EXCEPT ![t].handle = 0,
                                  ![t].pc = IF ok \/ tasks[t].kind = "probe"
                                            THEN "done" ELSE "load_errors"]
        /\ UNCHANGED <<request_count, error_count, transports, client_ref, scheduling>>
        /\ UNCHANGED <<serialVars, streamVars, probeVars, closeVars, listVars>>

\* error_count += 1, the read.
LoadErrors ==
    \E t \in Tasks :
        /\ At(t, "load_errors")
        /\ tasks' = [tasks EXCEPT ![t].reg = error_count,
                                  ![t].pc = "store_errors"]
        /\ UNCHANGED <<request_count, error_count, transports, client_ref, scheduling>>
        /\ UNCHANGED <<serialVars, streamVars, probeVars, closeVars, listVars>>

\* error_count += 1, the write.
StoreErrors ==
    \E t \in Tasks :
        /\ At(t, "store_errors")
        /\ error_count' = Incremented(tasks[t].reg)
        /\ tasks' = [tasks EXCEPT ![t].reg = 0, ![t].pc = "done"]
        /\ UNCHANGED <<request_count, transports, client_ref, scheduling>>
        /\ UNCHANGED <<serialVars, streamVars, probeVars, closeVars, listVars>>

\* VLLMClient.close, called while other operations may be in flight.
CloseClient ==
    /\ ~mock
    /\ scheduling = "parallel" \/ \A u \in Tasks : ~Running(u)
    /\ close_calls < MaxCloses
    /\ close_calls' = close_calls + 1
    /\ IF NeedsClose(RefState(client_ref, transports))
       THEN /\ transports' = Closed(transports, client_ref)
            /\ aclose_calls' = aclose_calls + 1
       ELSE UNCHANGED <<transports, aclose_calls>>
    /\ UNCHANGED <<request_count, error_count, tasks, client_ref, scheduling>>
    /\ UNCHANGED <<serialVars, streamVars, probeVars, listVars>>

NextTasks ==
    \/ Arrival
    \/ LoadRequests
    \/ StoreRequests
    \/ Consume
    \/ CheckClient
    \/ CreateClient
    \/ ReturnClient
    \/ Answer
    \/ LoadErrors
    \/ StoreErrors
    \/ CloseClient

SpecTasks == InitTasks /\ [][NextTasks]_vars

Next ==
    \/ Submit
    \/ BufferedReply
    \/ MockStream
    \/ StreamStart
    \/ StreamResponse
    \/ ReadLine
    \/ BodyEnd
    \/ ReadFail
    \/ Tick

Spec == Init /\ [][Next]_vars

\* One request drawn from the boundary values of the schema.
SubmitBoundary == \E raw \in BoundaryRequests : Handle(raw, 1)

NextValidation ==
    \/ SubmitBoundary
    \/ BufferedReply
    \/ MockStream
    \/ StreamStart
    \/ StreamResponse
    \/ ReadLine
    \/ BodyEnd
    \/ ReadFail
    \/ Tick

SpecValidation == Init /\ [][NextValidation]_vars

\* One request with one message drawn from the shapes a message can have;
\* the clock stands still.
SubmitMessage == \E raw \in MessageRequests : Handle(raw, 1)

NextMessages ==
    \/ SubmitMessage
    \/ BufferedReply
    \/ MockStream
    \/ StreamStart
    \/ StreamResponse
    \/ ReadLine
    \/ BodyEnd
    \/ ReadFail

SpecMessages == Init /\ [][NextMessages]_vars

\* The service with its health probe and the shutdown of its client; the
\* clock stands still.
SubmitService == \E raw \in ServiceRequests : Handle(raw, MaxRequests)

NextService ==
    \/ SubmitService
    \/ BufferedReply
    \/ MockStream
    \/ StreamStart
    \/ StreamResponse
    \/ BodyEnd
    \/ ReadFail
    \/ HealthCheck
    \/ Close

SpecService == Init /\ [][NextService]_vars

\* The service with callers that may close their connection during a
\* stream; the clock stands still.
NextCancel ==
    \/ SubmitService
    \/ BufferedReply
    \/ MockStream
    \/ StreamStart
    \/ StreamResponse
    \/ ReadLine
    \/ BodyEnd
    \/ ReadFail
    \/ Disconnect
    \/ ReadClosed
    \/ BodyEndClosed
    \/ Finalize

SpecCancel == Init /\ [][NextCancel]_vars

\* The requests of a process whose uuid4 draws are any values not drawn
\* before.
SubmitDrawn ==
    \E raw \in ServiceRequests : \E uuid \in UnusedUuids :
        Receive(raw, MaxRequests, uuid)

NextIds ==
    \/ SubmitDrawn
    \/ BufferedReply
    \/ MockStream
    \/ StreamStart
    \/ StreamResponse
    \/ BodyEnd
    \/ ReadFail

SpecIds == Init /\ [][NextIds]_vars

\* One streaming request; every line read is kept, with the clock of its
\* read, in the history variable lines.
StreamRequests == {r \in ServiceRequests : r.stream}

SubmitStream == \E raw \in StreamRequests : Handle(raw, 1)

ReadObserved ==
    \E line \in AllLinesAt(lines_read + 1) :
        Iterate(line) /\ lines' = Append(lines, [line |-> line, at |-> clock])

NextStream ==
    \/ SubmitStream
    \/ MockStream
    \/ StreamStart
    \/ StreamResponse
    \/ ReadObserved
    \/ BodyEnd
    \/ ReadFail
    \/ Tick

SpecStream == Init /\ [][NextStream]_vars

\* The finish reasons a backend can report in a choice: those of the
\* OpenAI format, one of its own, and JSON null.
ReportedFinishReasons ==
    {"stop", "length", "tool_calls", "content_filter", "abort", None}

\* 2xx answers to the buffered call with each of them.
FinishReplies ==
    { [kind |-> "status", status |-> 200,
       data |-> [choices |-> << [message |-> [content |-> "text"],
                                 finish_reason |-> f] >>,
                 usage |-> FullUsage]] : f \in ReportedFinishReasons }

ReplyFinished == \E r \in FinishReplies : Reply(r)

NextFinish ==
    \/ SubmitService
    \/ ReplyFinished
    \/ BufferedReply
    \/ MockStream
    \/ StreamStart
    \/ StreamResponse
    \/ BodyEnd
    \/ ReadFail

SpecFinish == Init /\ [][NextFinish]_vars

\* Completion requests interleaved with the two read-only endpoints.
NextReads ==
    \/ SubmitService
    \/ BufferedReply
    \/ MockStream
    \/ StreamStart
    \/ StreamResponse
    \/ BodyEnd
    \/ ReadFail
    \/ HealthCheck
    \/ ListModels

SpecReads == Init /\ [][NextReads]_vars


\* ------------------------------------------------------------- properties
IsKeepAlive(ev) == Get(ev, "keep_alive", FALSE)

FinishOf(ev) == Get(ev, "finish_reason", None)

Handled == Len(log) > 0 /\ pc = "idle"

Last == log[Len(log)]

\* The last request was a streaming one and its generator has finished.
StreamEnded ==
    Handled /\ Last.request.stream /\ Last.outcome \in {"ok", "failed"}

DoneCount == Cardinality({i \in 1..Len(out) : out[i].type = "done"})

ContentEvents == SelectSeq(events, LAMBDA ev : ~IsKeepAlive(ev))

DataChunks == SelectSeq(out, LAMBDA item : item.type = "data")

Failures == {i \in 1..Len(log) : log[i].outcome = "failed"}

\* C1: every streaming call ends with exactly one end-of-stream marker,
\* emitted after every chunk and keep-alive line, whatever the backend does
\* (sentinel, body end, error status, failure mid-stream).
C1_ExactlyOneDoneMarker ==
    /\ \A i \in 1..Len(out) : out[i].type = "done" => i = Len(out)
    /\ StreamEnded => (DoneCount = 1 /\ out[Len(out)].type = "done")

\* C2: in every stream that generate_stream produces and the orchestrator
\* forwards, exactly one content chunk carries a non-null finish reason and
\* it is the last content chunk.
C2_OneTerminalChunkLast ==
    (StreamEnded /\ Last.outcome = "ok") =>
        /\ Len(ContentEvents) > 0
        /\ \A i \in 1..Len(ContentEvents) :
              (FinishOf(ContentEvents[i]) # None) <=> (i = Len(ContentEvents))
        /\ Len(DataChunks) > 0
        /\ \A i \in 1..Len(DataChunks) :
              (DataChunks[i].finish_reason # None) <=> (i = Len(DataChunks))

\* C3: the usage block of every buffered response satisfies
\* total_tokens = prompt_tokens + completion_tokens.
C3_UsageTotalIsSum ==
    response.body.kind = "completion" =>
        response.body.usage.total_tokens =
            response.body.usage.prompt_tokens + response.body.usage.completion_tokens

\* C4: every request on which an exception escaped the buffered or the
\* streaming path has incremented the error counter exactly once.
C4_ErrorCountedOncePerFailure ==
    error_count = Cardinality(Failures)

\* A stream failed after part of it had been forwarded, and was counted.
C4_Witness ==
    /\ StreamEnded
    /\ Last.outcome = "failed"
    /\ Len(out) > 0
    /\ error_count = 1

\* C5: every generation failure reaches the caller as a 500-class response
\* with the error envelope (message, type, code), on both paths.
C5_FailureIs500Envelope ==
    (Handled /\ Last.outcome = "failed") =>
        /\ response.status = 500
        /\ response.body.kind = "error"
        /\ {"message", "type", "code"} \subseteq DOMAIN response.body

\* C6: two failed requests that differ only in the backend exception get
\* the same error message.
C6_EnvelopeIndependentOfCause ==
    \A i, j \in Failures :
        log[i].request = log[j].request => log[i].message = log[j].message

Supplied(req) ==
    /\ req.max_tokens # {}
    /\ req.temperature # {}
    /\ req.top_p # {}
    /\ req.top_k = {}

InClaimedRanges(req) ==
    \E m \in req.max_tokens, t \in req.temperature, p \in req.top_p :
        /\ 1 <= m /\ m <= 131072
        /\ 0 <= t /\ t <= 20
        /\ 0 <= p /\ p <= 10

\* C7: a request that supplies temperature, top_p and max_tokens is rejected
\* with 422 exactly when one of them is outside [0,2], [0,1], [1,131072], and
\* a rejected request causes no backend call.
C7_ValidationRanges ==
    /\ (request # NoRequest /\ Supplied(request)) =>
          ((response.status = 422) <=> ~InClaimedRanges(request))
    /\ response.status = 422 =>
          (pc = "idle" /\ backend_calls = 0 /\ request_count = 0)

\* Temperature just above the range, everything else in range: rejected.
C7_Witness ==
    /\ request.temperature = {21}
    /\ request.max_tokens = {131072}
    /\ request.top_p = {0}
    /\ request.top_k = {}
    /\ response.status = 422
    /\ backend_calls = 0

\* The reference point of the keep-alive timer for event i: the read of the
\* last keep-alive before it, or the start of the stream.
TimerBase(i) ==
    LET kas == {j \in 1..(i - 1) : IsKeepAlive(events[j])}
    IN IF kas = {} THEN stream_start
       ELSE arrival[CHOOSE j \in kas : \A k \in kas : k <= j]

\* C8: a content event whose line arrived more than keep_alive_interval
\* after the last keep-alive (or the stream start) has a keep-alive event
\* yielded before it at that read.
C8_KeepAliveBeforeLateContent ==
    ~mock =>
        \A i \in 1..Len(events) :
            ~IsKeepAlive(events[i]) =>
                arrival[i] - TimerBase(i) <= KeepAliveInterval

\* A line arrived late: a keep-alive and then its content were yielded.
C8_Witness ==
    /\ ~mock
    /\ \E i \in 1..(Len(events) - 1) :
          /\ IsKeepAlive(events[i])
          /\ ~IsKeepAlive(events[i + 1])
          /\ arrival[i] = arrival[i + 1]
          /\ arrival[i] - stream_start > KeepAliveInterval

\* C9: a stream whose backend body stayed open longer than the keep-alive
\* interval got a keep-alive event, and the end-of-stream marker is not
\* written before the backend stream has ended.
C9_KeepAliveOnLongOpenBody ==
    /\ (StreamEnded /\ ~mock /\ Last.outcome = "ok"
          /\ closed_at - opened_at > KeepAliveInterval) =>
              \E i \in 1..Len(events) : IsKeepAlive(events[i])
    /\ DoneCount > 0 => pc = "idle"

\* C10: a keep-alive event has empty content and no finish reason, an event
\* with a finish reason is not a keep-alive, and the chunk forwarded for a
\* keep-alive event carries no finish reason.
C10_KeepAliveCarriesNoFinish ==
    /\ \A i \in 1..Len(events) :
          /\ IsKeepAlive(events[i]) =>
                (Get(events[i], "content", "") = "" /\ FinishOf(events[i]) = None)
          /\ FinishOf(events[i]) # None => ~IsKeepAlive(events[i])
    /\ \A j \in 1..Len(out) :
          out[j].type = "comment" =>
              /\ j > 1
              /\ out[j - 1].type = "data"
              /\ out[j - 1].finish_reason = None
              /\ out[j - 1].content = ""

\* A stream with a keep-alive event and a terminal content event.
C10_Witness ==
    /\ \E i \in 1..Len(events) : IsKeepAlive(events[i])
    /\ \E i \in 1..Len(events) : FinishOf(events[i]) # None
    /\ \E j \in 1..Len(out) : out[j].type = "comment"

ProbeFailed(o) ==
    \/ o.kind \in {"client_error", "refused", "timeout"}
    \/ o.kind = "status" /\ o.status \notin 200..299

\* C11: no probe lets an exception out of is_healthy; a probe that meets a
\* refused connection, a timeout, a non-success status or a failure to
\* obtain the handle reports false, in the health response too; and the
\* probe leaves the handle open or as it was, and the request in flight
\* where it was.
C11_ProbeNeverRaises ==
    [][(probes' # probes) =>
          /\ ~probed'.raised
          /\ health'.status = 200
          /\ health'.body.vllm_connected = probed'.value
          /\ ProbeFailed(probed'.outcome) => ~probed'.value
          /\ client' = "open" \/ client' = client
          /\ pc' = pc /\ error_count' = error_count]_vars

\* Two probes of a backend that refuses the connection: the second one
\* reported false too, and the handle of the first is still open.
C11_Witness ==
    /\ ~mock
    /\ probes = 2
    /\ backend_calls = 0
    /\ probed.outcome.kind = "refused"
    /\ ~probed.value
    /\ ~health.body.vllm_connected
    /\ client = "open"
    /\ handles = 1

\* Requests that passed validation and have been handled to their end.
Accepted == {i \in 1..Len(log) : log[i].outcome # "rejected"}

InFlight == IF pc = "idle" THEN 0 ELSE 1

\* C12: the request counter is the number of requests that passed
\* validation, streaming or buffered, succeeded or failed, and a health
\* response reports that number as total_requests.
C12_EveryAcceptedRequestCountedOnce ==
    [][/\ request_count' = Cardinality(Accepted') + InFlight'
       /\ (probes' # probes) =>
             health'.body.total_requests = Cardinality(Accepted) + InFlight]_vars

\* After a failed request and a streaming request, health reports two.
C12_Witness ==
    /\ pc = "idle"
    /\ request_count = 2
    /\ \E i \in Accepted : log[i].outcome = "failed" /\ ~log[i].request.stream
    /\ \E i \in Accepted : log[i].outcome = "ok" /\ log[i].request.stream
    /\ health.status = 200
    /\ health.body.total_requests = 2

\* The step is a probe, a generate or a generate_stream of the real client
\* that obtained the handle.
UsesHandle ==
    \/ backend_calls' # backend_calls
    \/ probes' # probes /\ ~mock /\ probed'.outcome.kind # "client_error"

HandleAbsentUntilUsed == (handles = 0) <=> (client = "none")

\* C13: no handle exists until the client is first used; a probe, generate
\* or generate_stream leaves an open handle, the one it found when that was
\* open and a new one when there was none or it was closed; no other step
\* constructs a handle.
C13_HandleCreatedOnceAndReplacedWhenClosed ==
    [][/\ HandleAbsentUntilUsed /\ HandleAbsentUntilUsed'
       /\ UsesHandle =>
             /\ client' = "open"
             /\ handles' = IF client = "open" THEN handles ELSE handles + 1
       /\ ~UsesHandle => handles' = handles]_vars

\* Three operations and one close(): the second handle is open, one
\* operation reused the handle it found.
C13_Witness ==
    /\ ~mock
    /\ handles = 2
    /\ client = "open"
    /\ aclose_calls = 1
    /\ probes = 1
    /\ probed.outcome.kind = "status"
    /\ backend_calls = 2

\* C14: close() on a client without a handle creates none and changes
\* nothing; on an open handle it closes it; on a closed handle it changes
\* nothing; so no handle is closed twice.
C14_CloseIsIdempotent ==
    [][/\ (close_calls' # close_calls) =>
             /\ handles' = handles
             /\ client = "none" =>
                   (client' = "none" /\ aclose_calls' = aclose_calls)
             /\ client = "open" =>
                   (client' = "closed" /\ aclose_calls' = aclose_calls + 1)
             /\ client = "closed" =>
                   (client' = "closed" /\ aclose_calls' = aclose_calls)
       /\ aclose_calls' <= handles']_vars

\* close() was called twice on the one handle, which was closed once.
C14_Witness ==
    /\ close_calls = 2
    /\ handles = 1
    /\ aclose_calls = 1
    /\ client = "closed"

\* C15: every chunk written to a streaming response carries the identifier
\* generated for the request, which is the X-Request-ID header of the
\* response, and the model name of the request.
C15_ChunksCarryRequestIdAndModel ==
    \A j \in 1..Len(out) :
        out[j].type = "data" =>
            /\ response.body.kind = "stream"
            /\ out[j].id = response.body.x_request_id
            /\ out[j].id = request_id
            /\ out[j].model = request.model
            /\ out[j].model # BackendModel

\* The second request of a run streamed two chunks from the backend.
C15_Witness ==
    /\ ~mock
    /\ request_id = 2
    /\ Len(DataChunks) >= 2
    /\ response.body.x_request_id = 2

\* C16: once the caller has closed its connection during a stream, no
\* further line is read from the backend and no further event is produced
\* for the request.
C16_ConsumptionStopsOnDisconnect ==
    [][(~caller_open /\ pc = "reading") =>
          (lines_read' = lines_read /\ events' = events)]_vars

\* C17: when the connection of the buffered call cannot be established,
\* generate raises the connect error, and when the backend answers outside
\* 2xx it raises the status error; in both cases no completion is returned
\* and the request fails.
C17_GenerateFailsOnUnreachableOrStatus ==
    /\ reply.kind = "refused" =>
          /\ Generate(reply).raises
          /\ Generate(reply).exc.type = "ConnectError"
          /\ response.body.kind = "error"
          /\ response.body.message = ConnectError.text
          /\ Last.outcome = "failed"
    /\ (reply.kind = "status" /\ reply.status \notin 200..299) =>
          /\ Generate(reply).raises
          /\ Generate(reply).exc.type = "HTTPStatusError"
          /\ response.body.kind = "error"
          /\ response.body.message = StatusError(reply.status).text
          /\ Last.outcome = "failed"

\* The backend answered the buffered call with 503: the request failed.
C17_Witness ==
    /\ reply.kind = "status"
    /\ reply.status = 503
    /\ pc = "idle"
    /\ response.status = 500
    /\ response.body.message = HTTPStatusError.text
    /\ error_count >= 1

\* C18: a probe that got a status from the backend reports true exactly
\* when the status is in the success class 2xx.
C18_TrueExactlyOnSuccessClass ==
    probed.outcome.kind = "status" =>
        (probed.value <=> probed.outcome.status \in 200..299)

\* C18, amended: a probe that got a status from the backend reports true
\* exactly when the status is 200, and false for every other status, the
\* other 2xx ones included; the health response reports the same value.
C18_TrueExactlyOn200 ==
    probed.outcome.kind = "status" =>
        /\ probed.value <=> probed.outcome.status = 200
        /\ health.body.vllm_connected = probed.value

\* The backend answered the probe with 204 and the probe reported false.
C18_Witness ==
    /\ probed.outcome.kind = "status"
    /\ probed.outcome.status = 204
    /\ ~probed.value
    /\ ~health.body.vllm_connected

HasContentOrToolCalls(m) == "content" \in DOMAIN m \/ "tool_calls" \in DOMAIN m

\* C19: every message of a request that passed validation has content or
\* a tool_calls list.
C19_ContentAbsentOnlyWithToolCalls ==
    (request # NoRequest /\ response.status # 422) =>
        \A i \in 1..Len(request.messages) : HasContentOrToolCalls(request.messages[i])

\* A completion call for the request in flight has been issued to the backend.
CallInFlight == IF pc \in {"buf_wait", "stream_wait", "reading"} THEN 1 ELSE 0

EmptyMessages(req) == req.messages = <<>> /\ req.temperature = {DefaultTemperature}

GeneratedIds == [i \in 1..Len(uuids) |-> RequestId(uuids[i])]

\* C21: the request identifiers generated during the process lifetime are
\* pairwise distinct.
C21_RequestIdsPairwiseDistinct ==
    \A i, j \in 1..Len(uuids) :
        i # j => GeneratedIds[i] # GeneratedIds[j]

\* A step that read a line of the backend body, and the line it read.
LineWasRead == Len(lines') = Len(lines) + 1

LineRead == lines'[Len(lines')].line

\* A data line whose payload is a JSON object with a first choice.
WellFormed(line) ==
    /\ line.prefix = "data: "
    /\ line.payload.kind = "json"
    /\ "choices" \in DOMAIN line.payload.value
    /\ Len(line.payload.value.choices) > 0

\* The content and finish reason that the payload of a well-formed line
\* carries in its first choice.
Decoded(line) ==
    LET choice == line.payload.value.choices[1]
    IN [content |-> IF "delta" \in DOMAIN choice /\ "content" \in DOMAIN choice.delta
                    THEN choice.delta.content ELSE "",
        finish_reason |-> IF "finish_reason" \in DOMAIN choice
                          THEN choice.finish_reason ELSE None,
        keep_alive |-> FALSE]

\* C22: the content events of a stream are, in order, the decoded payloads
\* of the backend's well-formed data lines before the first sentinel: the
\* read of a well-formed line adds its payload as the last content event,
\* the read of any other line adds none, no read but that of the sentinel
\* leaves the rest of the body unread, and the events are forwarded to the
\* caller in the order of their yield.
C22_ContentEventsFollowBackendLines ==
    [][LineWasRead =>
          /\ ContentEvents' = IF WellFormed(LineRead)
                              THEN Append(ContentEvents, Decoded(LineRead))
                              ELSE ContentEvents
          /\ pc' # "reading" => LineRead.payload.kind = "sentinel"
          /\ Len(DataChunks') = Len(events')
          /\ \A i \in 1..Len(events') :
                DataChunks'[i].content = events'[i].content]_vars

\* C23: the read of the sentinel ends generate_stream: the sentinel is the
\* last line read, the stream has finished with the end-of-stream marker
\* and without an error, and the content events are as many as the
\* well-formed lines read, none for the sentinel and none for a line
\* after it.
C23_SentinelTerminates ==
    \A j \in 1..Len(lines) :
        lines[j].line.payload.kind = "sentinel" =>
            /\ j = Len(lines)
            /\ pc = "idle"
            /\ Last.outcome = "ok"
            /\ out[Len(out)].type = "done"
            /\ Len(ContentEvents) =
                   Cardinality({k \in 1..Len(lines) : WellFormed(lines[k].line)})
            /\ \A i \in 1..Len(events) : arrival[i] <= lines[j].at

\* A content line and then the sentinel were read, with time left for the
\* backend to send more.
C23_Witness ==
    /\ Len(lines) = 2
    /\ WellFormed(lines[1].line)
    /\ lines[2].line.payload.kind = "sentinel"
    /\ Len(ContentEvents) = 1
    /\ clock < MaxTime

\* A line that is blank, lacks the "data: " prefix, or whose payload is not
\* decodable JSON.
Undecodable(line) ==
    \/ line.payload.kind = "empty"
    \/ line.prefix # "data: "
    \/ line.payload.kind = "garbage"

\* C24: the read of a line that is blank, lacks the data prefix or holds
\* undecodable JSON yields no content event and does not end the stream:
\* the stream stays where it reads the next line, no error is counted and
\* nothing but a keep-alive is written to the caller.
C24_UndecodableLineSkipped ==
    [][(LineWasRead /\ Undecodable(LineRead)) =>
          /\ ContentEvents' = ContentEvents
          /\ pc' = "reading"
          /\ error_count' = error_count
          /\ log' = log
          /\ backend_open'
          /\ DoneCount' = 0]_vars

\* A line without the data prefix was read first, and the content line
\* after it was read and its event delivered to the caller.
C24_Witness ==
    /\ Len(lines) = 2
    /\ lines[1].line.prefix = ": "
    /\ WellFormed(lines[2].line)
    /\ Len(ContentEvents) = 1
    /\ ContentEvents[1].content = Token(2)
    /\ \E j \in 1..Len(out) : out[j].type = "data" /\ out[j].content = Token(2)

\* A data line whose payload decodes as JSON but has no usable first
\* choice: no "choices" member, an empty "choices", or no object at all.
NoUsableChoice(line) ==
    /\ line.prefix = "data: "
    /\ line.payload.kind \in {"json", "scalar"}
    /\ ~WellFormed(line)

\* C25: the read of a data line whose payload decodes but has no usable
\* first choice is discarded like a malformed fragment: no exception
\* leaves generate_stream, so no error is counted and the request is not
\* ended, and the stream stays where it reads the next line.
C25_NoUsableChoiceDiscarded ==
    [][(LineWasRead /\ NoUsableChoice(LineRead)) =>
          /\ ContentEvents' = ContentEvents
          /\ pc' = "reading"
          /\ error_count' = error_count
          /\ log' = log
          /\ backend_open']_vars

KeepAliveCount == Cardinality({i \in 1..Len(events) : IsKeepAlive(events[i])})

KeepAliveAtRead == LineWasRead /\ KeepAliveCount' = KeepAliveCount + 1

\* C27: the timer check consumes no line: at a read that yields a
\* keep-alive, the line read is then processed as at any other read: the
\* content event of a well-formed line follows the keep-alive, the sentinel
\* ends the stream, and an undecodable line is discarded and the loop
\* reads on.
C27_KeepAliveConsumesNoLine ==
    [][KeepAliveAtRead =>
          /\ Len(events') > Len(events)
          /\ IsKeepAlive(events'[Len(events) + 1])
          /\ WellFormed(LineRead) =>
                /\ events' = SubSeq(events', 1, Len(events) + 1)
                                 \o <<Decoded(LineRead)>>
                /\ SubSeq(events', 1, Len(events)) = events
                /\ pc' = "reading"
          /\ ~WellFormed(LineRead) => Len(events') = Len(events) + 1
          /\ LineRead.payload.kind = "sentinel" =>
                (pc' = "idle" /\ Last'.outcome = "ok" /\ DoneCount' = 1)
          /\ Undecodable(LineRead) => (pc' = "reading" /\ error_count' = error_count)
      ]_vars

\* Two late lines: the first yielded a keep-alive and then its content, the
\* second a keep-alive, and being the sentinel it ended the stream.
C27_Witness ==
    /\ ~mock
    /\ Len(lines) = 2
    /\ WellFormed(lines[1].line)
    /\ lines[2].line.payload.kind = "sentinel"
    /\ Len(events) = 3
    /\ IsKeepAlive(events[1])
    /\ events[2] = Decoded(lines[1].line)
    /\ IsKeepAlive(events[3])
    /\ pc = "idle"
    /\ DoneCount = 1

KeepAliveIndices == {i \in 1..Len(events) : IsKeepAlive(events[i])}

\* The value of the timer at a read at time t: the time of the last
\* keep-alive yielded before t, or the start of the stream.
TimerBefore(t) ==
    LET earlier == {i \in KeepAliveIndices : arrival[i] < t}
    IN IF earlier = {} THEN stream_start
       ELSE arrival[CHOOSE i \in earlier : \A k \in earlier : k <= i]

\* C28: the timer runs from the last keep-alive, or from the start of the
\* stream, and content events do not reset it: every keep-alive comes more
\* than keep_alive_interval after the keep-alive before it (the first one
\* after the stream start), and every line read more than the interval
\* after the last keep-alive has a keep-alive yielded at its read, whatever
\* content was delivered in between.
C28_TimerResetOnlyByKeepAlive ==
    ~mock =>
        /\ \A i \in KeepAliveIndices :
              arrival[i] - TimerBefore(arrival[i]) > KeepAliveInterval
        /\ \A i, k \in KeepAliveIndices : i # k => arrival[i] # arrival[k]
        /\ \A j \in 1..Len(lines) :
              lines[j].at - TimerBefore(lines[j].at) > KeepAliveInterval =>
                  \E i \in KeepAliveIndices : arrival[i] = lines[j].at

\* Content arrived at the end of the first interval, so without a
\* keep-alive, and again one interval later: the second read yielded a
\* keep-alive before its content.
C28_Witness ==
    /\ ~mock
    /\ Len(lines) = 2
    /\ WellFormed(lines[1].line)
    /\ WellFormed(lines[2].line)
    /\ lines[1].at - stream_start = KeepAliveInterval
    /\ lines[2].at - lines[1].at = KeepAliveInterval
    /\ Len(events) = 3
    /\ ~IsKeepAlive(events[1])
    /\ IsKeepAlive(events[2])
    /\ ~IsKeepAlive(events[3])

\* The items written to the caller for the events, without the
\* end-of-stream marker.
EventItems == SelectSeq(out, LAMBDA item : item.type # "done")

\* C29: the orchestrator writes exactly one item for each event of
\* generate_stream: a data chunk for a content event, a comment line and no
\* data chunk for a keep-alive event.
C29_OneItemPerEvent ==
    /\ Len(EventItems) = Len(events)
    /\ \A i \in 1..Len(events) :
          i <= Len(EventItems) =>
              EventItems[i].type = IF IsKeepAlive(events[i]) THEN "comment"
                                   ELSE "data"

\* The caller-facing response of the streaming path for the request in
\* flight.
Established(resp, id) ==
    /\ resp.status = 200
    /\ resp.body.kind = "stream"
    /\ resp.body.media_type = "text/event-stream"
    /\ resp.body.x_request_id = id

\* C30: on the streaming path the caller-facing response (status 200,
\* event-stream content type, X-Request-ID) is established before the
\* backend call is issued: the step in which chat_completions returns
\* issues no backend call and creates no handle, and the backend call of a
\* streaming request is issued by a later step, when the body generator is
\* first consumed, with the response already established and unchanged.
C30_ResponseBeforeBackendCall ==
    [][/\ (pc' = "gen_start" /\ pc # "gen_start") =>
              /\ Established(response', request_id')
              /\ backend_calls' = backend_calls
              /\ handles' = handles
       /\ (request'.stream /\ backend_calls' # backend_calls) =>
              /\ pc = "gen_start"
              /\ Established(response, request_id)
              /\ response' = response
              /\ request' = request]_vars

\* The second request of a run is a streaming one: its response is
\* established and its backend call, the second of the run, is under way.
C30_Witness ==
    /\ ~mock
    /\ Len(log) = 1
    /\ pc = "stream_wait"
    /\ request.stream
    /\ backend_calls = 2
    /\ Established(response, request_id)

OpenHandles == {h \in 1..Len(transports) : transports[h] = "open"}

\* C31: under cooperative scheduling, whatever probes, buffered calls and
\* streams are interleaved on the shared client, at most one transport
\* handle is open at any time and it is the one the client refers to, the
\* reference is never moved away from an open handle, and a call of
\* close() leaves no handle open.
C31_LazyInitSafeCooperative ==
    [][scheduling = "cooperative" =>
          /\ Cardinality(OpenHandles') <= 1
          /\ \A h \in OpenHandles' : h = client_ref'
          /\ client_ref' # client_ref =>
                RefState(client_ref, transports) # "open"
          /\ close_calls' # close_calls => OpenHandles' = {}]_vars

\* A stream and a probe wait for the backend at the same time on the one
\* handle that the first of them created.
C31_Witness ==
    /\ scheduling = "cooperative"
    /\ tasks[1].kind = "stream" /\ tasks[1].pc = "io" /\ tasks[1].handle = 1
    /\ tasks[2].kind = "probe" /\ tasks[2].pc = "io" /\ tasks[2].handle = 1
    /\ transports = <<"open">>
    /\ client_ref = 1

\* C32: the check-then-create of _get_client is not synchronised: a task
\* that has passed the check creates a handle and overwrites the reference
\* whatever another task has created in the meantime, and a handle that is
\* open but no longer referred to is closed by no later step, close()
\* included.  Under parallel execution two tasks reach that outcome.
C32_ParallelCreationOrphansHandle ==
    [][/\ Len(transports') > Len(transports) =>
              /\ transports' = Append(transports, "open")
              /\ client_ref' = Len(transports')
       /\ \A h \in OpenHandles : h # client_ref => h \in OpenHandles'
       /\ \A t \in Tasks :
              (tasks[t].pc = "create" /\ tasks'[t].pc # "create") =>
                  Len(transports') = Len(transports) + 1]_vars

\* Two parallel tasks both passed the check and each created a handle;
\* after close() the first handle, overwritten by the second, is still
\* open.
C32_Witness ==
    /\ scheduling = "parallel"
    /\ \A t \in Tasks : tasks[t].pc = "done"
    /\ transports = <<"open", "closed">>
    /\ client_ref = 2
    /\ close_calls >= 1
    /\ aclose_calls = 1

\* The completion requests whose increment of request_count is done.
Counted ==
    {t \in Tasks : /\ tasks[t].kind \in {"buffered", "stream"}
                   /\ tasks[t].pc \notin {"new", "load_requests", "store_requests"}}

\* The step completes the increment of error_count of some task.
ErrorStored ==
    \E t \in Tasks : tasks[t].pc = "store_errors" /\ tasks'[t].pc = "done"

\* C33: the counters are incremented by an unguarded read and write.  When
\* the increments are not interleaved (cooperative scheduling) none is
\* lost: request_count is the number of requests handled and every counted
\* error adds one.  Under any scheduling an increment can only be lost,
\* never added, so request_count is at most the number of requests handled;
\* under parallel execution it can be smaller.
C33_UnguardedIncrements ==
    [][/\ request_count' <= Cardinality(Counted')
       /\ request_count' >= (IF Counted' = {} THEN 0 ELSE 1)
       /\ scheduling = "cooperative" =>
              /\ request_count' = Cardinality(Counted')
              /\ ErrorStored => error_count' = error_count + 1
              /\ ~ErrorStored => error_count' = error_count]_vars

\* Two parallel requests both read request_count 0 and both wrote 1: both
\* are handled and total_requests is 1.
C33_Witness ==
    /\ scheduling = "parallel"
    /\ \A t \in Tasks : tasks[t].pc = "done" /\ tasks[t].kind \in {"buffered", "stream"}
    /\ Cardinality(Counted) = MaxTasks
    /\ request_count < MaxTasks

\* C34: the core never retries.  With the real client the backend
\* completion calls issued are one for every accepted request that has
\* ended or is waiting for the backend, none for a streaming request whose
\* body has not been consumed yet, and no request, failed ones included,
\* is behind more than one call.
C34_NoRetry ==
    ~mock =>
        /\ backend_calls = Cardinality(Accepted) + CallInFlight
        /\ pc = "gen_start" => backend_calls = Cardinality(Accepted)
        /\ Cardinality(Failures) <= backend_calls
        /\ backend_calls <= request_count

\* A buffered and a streaming request both failed at the backend: two
\* calls were issued in all.
C34_Witness ==
    /\ ~mock
    /\ pc = "idle"
    /\ Len(log) = 2
    /\ ~log[1].request.stream /\ log[1].outcome = "failed"
    /\ log[2].request.stream /\ log[2].outcome = "failed"
    /\ backend_calls = 2
    /\ error_count = 2

FinishReasons == {"stop", "length", "tool_calls", "content_filter"}

\* C35: the finish reason of the choice in every buffered response
\* envelope belongs to the closed set stop, length, tool_calls,
\* content_filter, whatever the backend reported.
C35_FinishReasonInClosedSet ==
    response.body.kind = "completion" =>
        \A i \in 1..Len(response.body.choices) :
            response.body.choices[i].finish_reason \in FinishReasons

\* C36: in every reachable state error_count <= request_count, the
\* error_rate of a health response lies between 0.0 and 1.0 (in
\* ten-thousandths), and a health response for no requests reports 0.0.
C36_ErrorRateWithinUnit ==
    /\ error_count <= request_count
    /\ health.body.kind = "health" =>
          /\ health.body.error_rate \in 0..10000
          /\ health.body.total_requests = 0 => health.body.error_rate = 0
          /\ health.body.total_requests <= request_count

\* The health surface was asked before any request and reported 0.0; since
\* then one request succeeded and one failed.
C36_Witness ==
    /\ probes = 1
    /\ health.body.kind = "health"
    /\ health.body.total_requests = 0
    /\ health.body.error_rate = 0
    /\ request_count = 2
    /\ error_count = 1
    /\ pc = "idle"

\* The step rejected a request by validation.
Rejected ==
    /\ Len(log') = Len(log) + 1
    /\ log'[Len(log')].outcome = "rejected"

\* C37: a request rejected by validation changes no state: the counters,
\* the identifiers generated, the transport handle and the backend calls
\* are as before, and no request is left in flight.
C37_RejectionChangesNoState ==
    [][Rejected =>
          /\ response'.status = 422
          /\ request_count' = request_count
          /\ error_count' = error_count
          /\ uuid_draws' = uuid_draws
          /\ uuids' = uuids
          /\ request_id' = request_id
          /\ client' = client
          /\ handles' = handles
          /\ backend_calls' = backend_calls
          /\ pc' = "idle"]_vars

\* A request was rejected after another had been served by the backend:
\* one request counted, one identifier, one handle, one call.
C37_Witness ==
    /\ ~mock
    /\ Len(log) = 2
    /\ log[1].outcome = "ok"
    /\ log[2].outcome = "rejected"
    /\ response.status = 422
    /\ request_count = 1
    /\ uuid_draws = 1
    /\ handles = 1
    /\ backend_calls = 1

\* The step handled a GET /health or a GET /api/v1/models.
ReadOnlyCall == probes' # probes \/ listings' # listings

\* C38: the health and model-discovery endpoints only read the counters:
\* no such call changes request_count or error_count, a failing probe
\* included, so that after any interleaving the counters are what the
\* completion requests alone determine: the requests accepted and the
\* requests failed.
C38_ReadEndpointsLeaveCounters ==
    [][/\ ReadOnlyCall =>
              /\ request_count' = request_count
              /\ error_count' = error_count
              /\ log' = log
              /\ pc' = pc
       /\ request_count' = Cardinality(Accepted') + InFlight'
       /\ error_count' = Cardinality(Failures')]_vars

\* Between and after two completion requests, one of which failed, the
\* models were listed twice and health was probed twice; the last probe
\* found the backend unreachable.
C38_Witness ==
    /\ ~mock
    /\ listings = 2
    /\ probes = 2
    /\ probed.outcome.kind = "refused"
    /\ health.body.vllm_connected = FALSE
    /\ models.status = 200
    /\ pc = "idle"
    /\ request_count = 2
    /\ error_count = 1
    /\ health.body.total_requests = 2

\* C39: when a consumed generate_stream has finished, by the sentinel, the
\* end of the body, a non-2xx status or an exception while reading, the
\* backend streaming response opened for it is closed, and the shared
\* transport handle is still the open one it used, kept for the requests
\* that follow: a backend response is open only while its stream is read,
\* and no second handle is created.
C39_BackendResponseClosedHandleKept ==
    ~mock =>
        /\ backend_open => pc = "reading"
        /\ StreamEnded => (~backend_open /\ client = "open" /\ handles = 1)
        /\ handles <= 1
        /\ aclose_calls = 0

\* A stream that failed while its body was read was followed by a stream
\* that ended with the sentinel, on the same handle; no backend response
\* is open.
C39_Witness ==
    /\ ~mock
    /\ pc = "idle"
    /\ Len(log) = 2
    /\ log[1].request.stream /\ log[1].outcome = "failed"
    /\ log[2].request.stream /\ log[2].outcome = "ok"
    /\ lines_read > 0
    /\ out[Len(out)].type = "done"
    /\ backend_calls = 2
    /\ handles = 1
    /\ client = "open"
    /\ ~backend_open

====
